---------------------------- MODULE Spec2Model ----------------------------
(***************************************************************************)
(* Model of the sysgenid D-Bus service (src/src/main.rs): the Sysgenid     *)
(* state (generation counter, tracked watchers, outdated watchers), its    *)
(* methods, and the bus handlers that call them under the Sysgenid mutex.  *)
(***************************************************************************)
EXTENDS Integers, Naturals, Sequences, FiniteSets, TLC

(***************************************************************************)
(* Bounds.  The generation counter is a u32 in the source; the model keeps *)
(* the same unsigned wrap-around arithmetic with U32_MAX scaled down: the  *)
(* counter ranges over 0..U32_MAX and U32_MAX + 1 wraps to 0.              *)
(* Bus names (unique connection names, Strings in the source) are the      *)
(* numbers 1..NumWatchers; 0 stands for "no name" (a missing sender, or    *)
(* the empty owner string of NameOwnerChanged).                            *)
(***************************************************************************)
U32_MAX == 3
NumWatchers == 2
MaxReadyCount == 2
MaxTriggers == 2

U32_MODULUS == U32_MAX + 1
U32 == 0 .. U32_MAX
WatcherIds == 1 .. NumWatchers
NoName == 0
Unlimited == -1
BusNames == WatcherIds \cup {NoName}

VARIABLES
    generation_counter,   \* Sysgenid.generation_counter
    watchers,             \* Sysgenid.watchers: id -> Watcher
    outdated_watchers,    \* Sysgenid.outdated_watchers: id -> Watcher
    overflow_checks,      \* build profile: TRUE = arithmetic overflow panics
    panic,                \* "none", or the panic that ended the process
    emitted,              \* signals sent by the last handler, in order
    last_op,              \* the last bus message handled and its outcome
    ready_since_bump,     \* SystemReady signals sent since the last bump
    ready_in_gen,         \* SystemReady signals sent while the counter had its present value
    outdated_at_bump,     \* was outdated_watchers non-empty right after the last bump
    announced,            \* payload of the most recent NewGeneration: <<>> or <<g>>
    max_announced,        \* greatest NewGeneration payload sent so far (0 if none)
    triggers_left,        \* TriggerSysGenUpdate calls still to come, or Unlimited
    log_ops,              \* is the handled message kept in last_op
    mutex,                \* holder of the Mutex<Sysgenid>, or "free"
    pc,                   \* per handler: where it is in its closure
    req,                  \* per handler: the message it is handling
    taken,                \* per handler: the map moved out by mem::take
    cl_pc,                \* example client: where it is in its program
    cl_counter,           \* example client: the counter it read
    ovs_pc,               \* example overseer: where its main task is
    system_state,         \* Overseer::system_state
    ovs_lock,             \* holder of the overseer's Mutex<Overseer>
    ovs_count,            \* wait_system_adjust: its local outdated_watchers
    inbox,                \* messages on their way to the overseer, in order
    call,                 \* the overseer's method call the service has to answer
    trigger_served,       \* history: the overseer's trigger has been handled
    empty_after_trigger   \* history: outdated_watchers was empty since then

\* handlers running as separate contexts (SpecThreads)
thread_vars == <<mutex, pc, req, taken>>

\* the example client (SpecClient)
client_vars == <<cl_pc, cl_counter>>

\* the example overseer (SpecOverseer)
overseer_vars ==
    <<ovs_pc, system_state, ovs_lock, ovs_count, inbox, call, trigger_served,
      empty_after_trigger>>

\* the example programs
example_vars == <<client_vars, overseer_vars>>

\* the variables of the scenarios that Spec leaves alone
other_vars == <<log_ops, thread_vars, example_vars>>

vars == <<generation_counter, watchers, outdated_watchers, overflow_checks,
          panic, emitted, last_op, ready_since_bump, ready_in_gen,
          outdated_at_bump, announced, max_announced, triggers_left,
          other_vars>>

----------------------------------------------------------------------------
(* std helpers *)

max(a, b) == IF a >= b THEN a ELSE b

Min(a, b) == IF a <= b THEN a ELSE b

\* u32 addition: the wrapped value and whether it overflowed.
u32_add(a, b) ==
    [value |-> (a + b) % U32_MODULUS, overflow |-> a + b > U32_MAX]

EmptyMap == [k \in {} |-> 0]

\* HashMap::remove
MapRemove(m, k) == [x \in DOMAIN m \ {k} |-> m[x]]

\* HashMap::insert
MapInsert(m, k, v) == [x \in DOMAIN m \cup {k} |-> IF x = k THEN v ELSE m[x]]

\* HashMap::extend: entries of m2 are inserted into m1, replacing equal keys.
MapExtend(m1, m2) ==
    [x \in DOMAIN m1 \cup DOMAIN m2 |-> IF x \in DOMAIN m2 THEN m2[x] ELSE m1[x]]

Watcher(acked) == [acked_gen_counter |-> acked]

NewGeneration(g) == [name |-> "NewGeneration", args |-> <<g>>]

SystemReady == [name |-> "SystemReady", args |-> <<>>]

----------------------------------------------------------------------------
(* Sysgenid: methods as functions of the struct value s.  Each returns the *)
(* new struct value, the signals sent, and how the call ended.             *)

Sysgenid_new ==
    [generation_counter |-> 0, watchers |-> EmptyMap, outdated_watchers |-> EmptyMap]

Outcome(s, signals, result) == [s |-> s, signals |-> signals, result |-> result]

\* Variant: also announces readiness when nothing is outdated after marking.
bump_generation_ready_if_empty(s, min_gen, checks) ==
    LET sum == u32_add(s.generation_counter, 1)
        gen == max(min_gen, sum.value)
        marked == MapExtend(s.outdated_watchers, s.watchers)
    IN  IF sum.overflow /\ checks
        THEN Outcome(s, <<>>, "PanicOverflow")
        ELSE Outcome([generation_counter |-> gen,
                      watchers |-> EmptyMap,
                      outdated_watchers |-> marked],
                     IF DOMAIN marked = {}
                     THEN <<NewGeneration(gen), SystemReady>>
                     ELSE <<NewGeneration(gen)>>, "Ok")

\* Variant: copies the tracked watchers to the outdated map without taking them.
bump_generation_keep_watchers(s, min_gen, checks) ==
    LET sum == u32_add(s.generation_counter, 1)
        gen == max(min_gen, sum.value)
    IN  IF sum.overflow /\ checks
        THEN Outcome(s, <<>>, "PanicOverflow")
        ELSE Outcome([generation_counter |-> gen,
                      watchers |-> s.watchers,
                      outdated_watchers |-> MapExtend(s.outdated_watchers, s.watchers)],
                     <<NewGeneration(gen)>>, "Ok")

\* Variant: the outdated map is replaced by the tracked watchers, not extended.
bump_generation_replace_outdated(s, min_gen, checks) ==
    LET sum == u32_add(s.generation_counter, 1)
        gen == max(min_gen, sum.value)
    IN  IF sum.overflow /\ checks
        THEN Outcome(s, <<>>, "PanicOverflow")
        ELSE Outcome([generation_counter |-> gen,
                      watchers |-> EmptyMap,
                      outdated_watchers |-> s.watchers],
                     <<NewGeneration(gen)>>, "Ok")

\* Variant: the signal is made before the counter is updated.
bump_generation_announce_old(s, min_gen, checks) ==
    LET sum == u32_add(s.generation_counter, 1)
        gen == max(min_gen, sum.value)
    IN  IF sum.overflow /\ checks
        THEN Outcome(s, <<>>, "PanicOverflow")
        ELSE Outcome([generation_counter |-> gen,
                      watchers |-> EmptyMap,
                      outdated_watchers |-> MapExtend(s.outdated_watchers, s.watchers)],
                     <<NewGeneration(s.generation_counter)>>, "Ok")

bump_generation(s, min_gen, checks) ==
    LET sum == u32_add(s.generation_counter, 1)
        gen == max(min_gen, sum.value)
    IN  IF sum.overflow /\ checks
        THEN Outcome(s, <<>>, "PanicOverflow")
        ELSE Outcome([generation_counter |-> gen,
                      watchers |-> EmptyMap,
                      outdated_watchers |-> MapExtend(s.outdated_watchers, s.watchers)],
                     <<NewGeneration(gen)>>, "Ok")

\* Variant: signals whenever a watcher was removed, without the is_empty test.
remove_outdated_watcher_any_removal(s, watcher_id) ==
    LET removed == watcher_id \in DOMAIN s.outdated_watchers
        rest == MapRemove(s.outdated_watchers, watcher_id)
    IN  Outcome([s EXCEPT !.outdated_watchers = rest],
                IF removed THEN <<SystemReady>> ELSE <<>>,
                "Ok")

\* Variant: signals whenever the map is empty, without the is_some test.
remove_outdated_watcher_any_empty(s, watcher_id) ==
    LET rest == MapRemove(s.outdated_watchers, watcher_id)
    IN  Outcome([s EXCEPT !.outdated_watchers = rest],
                IF DOMAIN rest = {} THEN <<SystemReady>> ELSE <<>>,
                "Ok")

\* Variant: the whole outdated map is cleared, not only the caller's entry.
remove_outdated_watcher_clear_all(s, watcher_id) ==
    LET removed == watcher_id \in DOMAIN s.outdated_watchers
    IN  Outcome([s EXCEPT !.outdated_watchers = IF removed THEN EmptyMap ELSE @],
                IF removed THEN <<SystemReady>> ELSE <<>>,
                "Ok")

\* Variant: is_empty is tested before the entry is removed.
remove_outdated_watcher_empty_before_remove(s, watcher_id) ==
    LET removed == watcher_id \in DOMAIN s.outdated_watchers
        rest == MapRemove(s.outdated_watchers, watcher_id)
    IN  Outcome([s EXCEPT !.outdated_watchers = rest],
                IF DOMAIN s.outdated_watchers = {} /\ removed
                THEN <<SystemReady>> ELSE <<>>,
                "Ok")

remove_outdated_watcher(s, watcher_id) ==
    LET removed == watcher_id \in DOMAIN s.outdated_watchers
        rest == MapRemove(s.outdated_watchers, watcher_id)
    IN  Outcome([s EXCEPT !.outdated_watchers = rest],
                IF removed /\ DOMAIN rest = {} THEN <<SystemReady>> ELSE <<>>,
                "Ok")

\* Variant: starts tracking without removing the watcher from the outdated map.
ack_watcher_gen_counter_keep_outdated(s, watcher_id) ==
    IF watcher_id \in DOMAIN s.watchers
    THEN IF s.watchers[watcher_id].acked_gen_counter = s.generation_counter
         THEN Outcome(s, <<>>, "Ok")
         ELSE Outcome(s, <<>>, "PanicAssert")
    ELSE Outcome([s EXCEPT !.watchers = MapInsert(s.watchers, watcher_id,
                                                  Watcher(s.generation_counter))],
                 <<>>, "Ok")

\* Variant: an already tracked watcher goes through the readiness test again.
ack_watcher_gen_counter_resignal(s, watcher_id) ==
    IF watcher_id \in DOMAIN s.watchers
    THEN IF s.watchers[watcher_id].acked_gen_counter = s.generation_counter
         THEN Outcome(s, IF DOMAIN s.outdated_watchers = {}
                         THEN <<SystemReady>> ELSE <<>>, "Ok")
         ELSE Outcome(s, <<>>, "PanicAssert")
    ELSE remove_outdated_watcher(
             [s EXCEPT !.watchers = MapInsert(s.watchers, watcher_id,
                                              Watcher(s.generation_counter))],
             watcher_id)

\* Variant: a watcher that was not tracked is entered in the outdated map.
ack_watcher_gen_counter_insert_outdated(s, watcher_id) ==
    IF watcher_id \in DOMAIN s.watchers
    THEN IF s.watchers[watcher_id].acked_gen_counter = s.generation_counter
         THEN Outcome(s, <<>>, "Ok")
         ELSE Outcome(s, <<>>, "PanicAssert")
    ELSE IF watcher_id \in DOMAIN s.outdated_watchers
         THEN remove_outdated_watcher(
                  [s EXCEPT !.watchers = MapInsert(s.watchers, watcher_id,
                                                   Watcher(s.generation_counter))],
                  watcher_id)
         ELSE Outcome([s EXCEPT !.outdated_watchers =
                                   MapInsert(s.outdated_watchers, watcher_id,
                                             Watcher(s.generation_counter))],
                      <<>>, "Ok")

ack_watcher_gen_counter(s, watcher_id) ==
    IF watcher_id \in DOMAIN s.watchers
    THEN IF s.watchers[watcher_id].acked_gen_counter = s.generation_counter
         THEN Outcome(s, <<>>, "Ok")
         ELSE Outcome(s, <<>>, "PanicAssert")
    ELSE remove_outdated_watcher(
             [s EXCEPT !.watchers = MapInsert(s.watchers, watcher_id,
                                              Watcher(s.generation_counter))],
             watcher_id)

\* Variant: the watcher_counter test is missing.
update_watcher_no_counter_check(s, watcher_id, tracking, watcher_counter) ==
    IF tracking
    THEN ack_watcher_gen_counter(s, watcher_id)
    ELSE remove_outdated_watcher(
             [s EXCEPT !.watchers = MapRemove(s.watchers, watcher_id)],
             watcher_id)

\* Variant: opting out removes the watcher from the outdated map only.
update_watcher_untrack_outdated_only(s, watcher_id, tracking, watcher_counter) ==
    IF tracking
    THEN IF watcher_counter # s.generation_counter
         THEN Outcome(s, <<>>, "Err")
         ELSE ack_watcher_gen_counter(s, watcher_id)
    ELSE remove_outdated_watcher(s, watcher_id)

update_watcher(s, watcher_id, tracking, watcher_counter) ==
    IF tracking
    THEN IF watcher_counter # s.generation_counter
         THEN Outcome(s, <<>>, "Err")
         ELSE ack_watcher_gen_counter(s, watcher_id)
    ELSE remove_outdated_watcher(
             [s EXCEPT !.watchers = MapRemove(s.watchers, watcher_id)],
             watcher_id)

----------------------------------------------------------------------------
(* The service: one Sysgenid behind a mutex, one handler at a time.        *)

Self ==
    [generation_counter |-> generation_counter, watchers |-> watchers,
     outdated_watchers |-> outdated_watchers]

\* The tri-state of a bus name in the struct value s.
StateOf(s, w) ==
    IF w \in DOMAIN s.watchers THEN "Current"
    ELSE IF w \in DOMAIN s.outdated_watchers THEN "Outdated"
    ELSE "Untracked"

\* A handled message: its arguments, its outcome, and (was) the state the
\* named watcher was in when the handler started.
OpRecord(op, id, old_owner, tracking, arg, result, reply, was) ==
    [op |-> op, id |-> id, old_owner |-> old_owner, tracking |-> tracking,
     arg |-> arg, result |-> result, reply |-> reply, was |-> was]

Op(op, id, old_owner, tracking, arg, result, reply) ==
    IF log_ops
    THEN OpRecord(op, id, old_owner, tracking, arg, result, reply, StateOf(Self, id))
    ELSE last_op

\* Payloads of the NewGeneration signals in signals, in order.
Payloads(signals) ==
    LET idx == {i \in DOMAIN signals : signals[i].name = "NewGeneration"}
    IN  [i \in idx |-> signals[i].args[1]]

SetMax(S) == CHOOSE x \in S : \A y \in S : y <= x

CountReady(signals) ==
    Cardinality({i \in DOMAIN signals : signals[i] = SystemReady})

IsPanic(result) == result \in {"PanicOverflow", "PanicAssert"}

\* The handler ran with outcome out; bumped tells whether it was a bump.
Commit(out, bumped) ==
    LET n == CountReady(out.signals)
        ok == ~IsPanic(out.result)
    IN  /\ generation_counter' = out.s.generation_counter
        /\ watchers' = out.s.watchers
        /\ outdated_watchers' = out.s.outdated_watchers
        /\ panic' = IF ok THEN "none" ELSE out.result
        /\ emitted' = out.signals
        /\ ready_since_bump' =
              IF bumped /\ ok THEN Min(n, MaxReadyCount)
              ELSE Min(ready_since_bump + n, MaxReadyCount)
        /\ ready_in_gen' =
              IF out.s.generation_counter # generation_counter
              THEN Min(n, MaxReadyCount)
              ELSE Min(ready_in_gen + n, MaxReadyCount)
        /\ outdated_at_bump' =
              IF bumped /\ ok THEN DOMAIN out.s.outdated_watchers # {}
              ELSE outdated_at_bump
        /\ LET pl == Payloads(out.signals)
           IN  IF DOMAIN pl = {}
               THEN UNCHANGED <<announced, max_announced>>
               ELSE /\ announced' = <<pl[SetMax(DOMAIN pl)]>>
                    /\ max_announced' =
                          SetMax({pl[i] : i \in DOMAIN pl} \cup {max_announced})
        /\ UNCHANGED <<overflow_checks, log_ops, thread_vars>>

InitService ==
    /\ generation_counter = Sysgenid_new.generation_counter
    /\ watchers = Sysgenid_new.watchers
    /\ outdated_watchers = Sysgenid_new.outdated_watchers
    /\ overflow_checks \in BOOLEAN
    /\ panic = "none"
    /\ emitted = <<>>
    /\ last_op = OpRecord("new", NoName, NoName, FALSE, 0, "Ok", <<>>, "Untracked")
    /\ ready_since_bump = 0
    /\ ready_in_gen = 0
    /\ outdated_at_bump = FALSE
    /\ announced = <<>>
    /\ max_announced = 0

Handlers == {"method", "listener"}

NoReq == [op |-> "none", id |-> NoName, tracking |-> FALSE, arg |-> 0]

\* no handler context is running
ThreadsIdle ==
    /\ mutex = "free"
    /\ pc = [h \in Handlers |-> "idle"]
    /\ req = [h \in Handlers |-> NoReq]
    /\ taken = [h \in Handlers |-> EmptyMap]

\* the example client is not running
ClientOff ==
    /\ cl_pc = "off"
    /\ cl_counter = 0

\* Overseer::new, with no call made and nothing received
OverseerNew ==
    /\ system_state = "Ready"
    /\ ovs_lock = "free"
    /\ ovs_count = 0
    /\ inbox = <<>>
    /\ call = "none"
    /\ trigger_served = FALSE
    /\ empty_after_trigger = FALSE

\* the example overseer is not running
OverseerOff ==
    /\ ovs_pc = "off"
    /\ OverseerNew

ExamplesOff == ClientOff /\ OverseerOff

Init ==
    /\ InitService
    /\ triggers_left = Unlimited
    /\ log_ops = TRUE
    /\ ThreadsIdle
    /\ ExamplesOff

GetSysGenCounter ==
    /\ panic = "none"
    /\ UNCHANGED <<triggers_left, example_vars>>
    /\ Commit(Outcome(Self, <<>>, "Ok"), FALSE)
    /\ last_op' = Op("GetSysGenCounter", NoName, NoName, FALSE, 0, "Ok",
                     <<generation_counter>>)

CountOutdatedWatchers ==
    /\ panic = "none"
    /\ UNCHANGED <<triggers_left, example_vars>>
    /\ Commit(Outcome(Self, <<>>, "Ok"), FALSE)
    /\ last_op' = Op("CountOutdatedWatchers", NoName, NoName, FALSE, 0, "Ok",
                     <<Cardinality(DOMAIN outdated_watchers) % U32_MODULUS>>)

\* The UpdateWatcher handler for one message.
UpdateWatcherCall(sender, tracking, watcher_counter) ==
    LET out == IF sender = NoName
               THEN Outcome(Self, <<>>, "Err")
               ELSE update_watcher(Self, sender, tracking, watcher_counter)
    IN  /\ panic = "none"
        /\ UNCHANGED <<triggers_left, example_vars>>
        /\ Commit(out, FALSE)
        /\ last_op' = Op("UpdateWatcher", sender, NoName, tracking,
                         watcher_counter, out.result,
                         IF out.result = "Ok"
                         THEN <<out.s.generation_counter>> ELSE <<>>)

\* The counters a caller passes: the current one, the one before it (read
\* before a bump) and the one after it.  update_watcher only tests equality.
WatcherCounters ==
    {generation_counter, (generation_counter + U32_MAX) % U32_MODULUS,
     (generation_counter + 1) % U32_MODULUS}

\* A message without sender is answered before its arguments are used.
UpdateWatcher ==
    \/ \E sender \in WatcherIds, tracking \in BOOLEAN,
          watcher_counter \in WatcherCounters :
          UpdateWatcherCall(sender, tracking, watcher_counter)
    \/ UpdateWatcherCall(NoName, FALSE, 0)

TriggerSysGenUpdate ==
    /\ panic = "none"
    /\ triggers_left # 0
    /\ triggers_left' = IF triggers_left = Unlimited THEN Unlimited
                        ELSE triggers_left - 1
    /\ UNCHANGED example_vars
    /\ \E min_gen \in U32 :
          LET out == bump_generation(Self, min_gen, overflow_checks)
          IN  /\ Commit(out, TRUE)
              /\ last_op' = Op("TriggerSysGenUpdate", NoName, NoName, FALSE,
                               min_gen, out.result, <<>>)

\* NameOwnerChanged(arg0 = name, arg1 = old owner, arg2 = new owner).
NameOwnerChanged ==
    /\ panic = "none"
    /\ UNCHANGED <<triggers_left, example_vars>>
    /\ \E arg0 \in WatcherIds : \E arg1 \in {arg0, NoName} :
          LET leaving == arg0 = arg1
              out == IF leaving
                     THEN update_watcher(Self, arg0, FALSE, 0)
                     ELSE Outcome(Self, <<>>, "Ignored")
          IN  /\ Commit(out, FALSE)
              /\ last_op' = Op("NameOwnerChanged", arg0, arg1, FALSE, 0,
                               out.result, <<>>)

Next ==
    \/ GetSysGenCounter
    \/ CountOutdatedWatchers
    \/ UpdateWatcher
    \/ TriggerSysGenUpdate
    \/ NameOwnerChanged

Spec == Init /\ [][Next]_vars

----------------------------------------------------------------------------
(* Readiness as a liveness property: the overseer calls TriggerSysGenUpdate *)
(* at most MaxTriggers times, the service keeps serving messages, and a     *)
(* watcher that is outdated eventually acknowledges, opts out or leaves.    *)

InitLive ==
    /\ InitService
    /\ triggers_left = MaxTriggers
    /\ log_ops = FALSE
    /\ ThreadsIdle
    /\ ExamplesOff

\* Watcher w, outdated, acknowledges the current counter.  Weak fairness of
\* this action says that w does not stay outdated forever: an opt-out or a
\* disconnect of w disables it just as its acknowledgement does.
Resolve(w) ==
    /\ w \in DOMAIN outdated_watchers
    /\ UpdateWatcherCall(w, TRUE, generation_counter)

SpecLive ==
    InitLive /\ [][Next]_vars /\ \A w \in WatcherIds : WF_vars(Resolve(w))

----------------------------------------------------------------------------
(* The handlers as separate contexts.  The method closures and the         *)
(* NameOwnerChanged callback each lock the same Mutex<Sysgenid> (s2 is a   *)
(* clone of the Arc given to Crossroads) and then run their statements one *)
(* at a time.  Messages rejected before the lock is taken (no sender, a    *)
(* name that is not leaving) touch nothing and are left out.               *)

\* the history variables, which the handler contexts do not keep
history_vars ==
    <<last_op, ready_since_bump, ready_in_gen, outdated_at_bump, announced,
      max_announced, triggers_left, log_ops, overflow_checks, example_vars>>

InitThreads ==
    /\ InitService
    /\ triggers_left = Unlimited
    /\ log_ops = FALSE
    /\ ThreadsIdle
    /\ ExamplesOff

Req(op, id, tracking, arg) == [op |-> op, id |-> id, tracking |-> tracking, arg |-> arg]

\* the messages a handler context can be called with
Requests(h) ==
    IF h = "listener"
    THEN {Req("NameOwnerChanged", w, FALSE, 0) : w \in WatcherIds}
    ELSE {Req("GetSysGenCounter", NoName, FALSE, 0),
          Req("CountOutdatedWatchers", NoName, FALSE, 0)}
         \cup {Req("UpdateWatcher", w, b, c) : w \in WatcherIds, b \in BOOLEAN, c \in U32}
         \cup {Req("TriggerSysGenUpdate", NoName, FALSE, g) : g \in U32}

\* the first statement a handler runs once it holds the lock
Entry(r) ==
    CASE r.op = "GetSysGenCounter" -> "read_counter"
      [] r.op = "CountOutdatedWatchers" -> "read_count"
      [] r.op = "TriggerSysGenUpdate" -> "bump_counter"
      [] r.op = "UpdateWatcher" /\ r.tracking -> "check_counter"
      [] OTHER -> "remove_watcher"

EntryLabels ==
    {"read_counter", "read_count", "bump_counter", "check_counter", "remove_watcher"}

\* Variant: lock() returns without waiting for the holder.
lock_available_unchecked(holder) == TRUE

\* Mutex::lock returns once no other context holds the mutex.
lock_available(holder) == holder = "free"

Goto(h, label) == pc' = [pc EXCEPT ![h] = label]

At(h, label) == panic = "none" /\ pc[h] = label

\* a handler closure is called and reaches its lock()
Invoke(h) ==
    /\ At(h, "idle")
    /\ Goto(h, "lock")
    /\ UNCHANGED <<generation_counter, watchers, outdated_watchers, panic,
                   emitted, mutex, req, taken, history_vars>>

Acquire(h) ==
    /\ At(h, "lock")
    /\ lock_available(mutex)
    /\ mutex' = h
    /\ \E r \in Requests(h) :
          /\ req' = [req EXCEPT ![h] = r]
          /\ Goto(h, Entry(r))
    /\ emitted' = <<>>
    /\ UNCHANGED <<generation_counter, watchers, outdated_watchers, panic,
                   taken, history_vars>>

\* GetSysGenCounter / CountOutdatedWatchers: read the value to reply
ReadStep(h) ==
    /\ At(h, "read_counter") \/ At(h, "read_count")
    /\ Goto(h, "unlock")
    /\ UNCHANGED <<generation_counter, watchers, outdated_watchers, panic,
                   emitted, mutex, req, taken, history_vars>>

\* update_watcher: the watcher_counter test
CheckCounter(h) ==
    /\ At(h, "check_counter")
    /\ Goto(h, IF req[h].arg # generation_counter THEN "unlock" ELSE "ack_lookup")
    /\ UNCHANGED <<generation_counter, watchers, outdated_watchers, panic,
                   emitted, mutex, req, taken, history_vars>>

\* ack_watcher_gen_counter: the assert_eq, or the insert into watchers
AckLookup(h) ==
    /\ At(h, "ack_lookup")
    /\ IF req[h].id \in DOMAIN watchers
       THEN /\ IF watchers[req[h].id].acked_gen_counter = generation_counter
               THEN Goto(h, "unlock") /\ UNCHANGED panic
               ELSE panic' = "PanicAssert" /\ UNCHANGED pc
            /\ UNCHANGED watchers
       ELSE /\ watchers' = MapInsert(watchers, req[h].id, Watcher(generation_counter))
            /\ Goto(h, "remove_outdated")
            /\ UNCHANGED panic
    /\ UNCHANGED <<generation_counter, outdated_watchers, emitted, mutex, req,
                   taken, history_vars>>

\* update_watcher, tracking = false: self.watchers.remove
RemoveWatcher(h) ==
    /\ At(h, "remove_watcher")
    /\ watchers' = MapRemove(watchers, req[h].id)
    /\ Goto(h, "remove_outdated")
    /\ UNCHANGED <<generation_counter, outdated_watchers, panic, emitted,
                   mutex, req, taken, history_vars>>

RemoveOutdated(h) ==
    /\ At(h, "remove_outdated")
    /\ LET out == remove_outdated_watcher(Self, req[h].id)
       IN  /\ outdated_watchers' = out.s.outdated_watchers
           /\ emitted' = emitted \o out.signals
    /\ Goto(h, "unlock")
    /\ UNCHANGED <<generation_counter, watchers, panic, mutex, req, taken,
                   history_vars>>

\* bump_generation: the counter update
BumpCounter(h) ==
    /\ At(h, "bump_counter")
    /\ LET sum == u32_add(generation_counter, 1)
       IN  IF sum.overflow /\ overflow_checks
           THEN panic' = "PanicOverflow" /\ UNCHANGED <<generation_counter, pc>>
           ELSE /\ generation_counter' = max(req[h].arg, sum.value)
                /\ Goto(h, "bump_signal")
                /\ UNCHANGED panic
    /\ UNCHANGED <<watchers, outdated_watchers, emitted, mutex, req, taken,
                   history_vars>>

BumpSignal(h) ==
    /\ At(h, "bump_signal")
    /\ emitted' = Append(emitted, NewGeneration(generation_counter))
    /\ Goto(h, "bump_take")
    /\ UNCHANGED <<generation_counter, watchers, outdated_watchers, panic,
                   mutex, req, taken, history_vars>>

\* std::mem::take(&mut self.watchers)
BumpTake(h) ==
    /\ At(h, "bump_take")
    /\ taken' = [taken EXCEPT ![h] = watchers]
    /\ watchers' = EmptyMap
    /\ Goto(h, "bump_extend")
    /\ UNCHANGED <<generation_counter, outdated_watchers, panic, emitted,
                   mutex, req, history_vars>>

BumpExtend(h) ==
    /\ At(h, "bump_extend")
    /\ outdated_watchers' = MapExtend(outdated_watchers, taken[h])
    /\ taken' = [taken EXCEPT ![h] = EmptyMap]
    /\ Goto(h, "unlock")
    /\ UNCHANGED <<generation_counter, watchers, panic, emitted, mutex, req,
                   history_vars>>

\* the closure returns and its MutexGuard is dropped
Release(h) ==
    /\ At(h, "unlock")
    /\ mutex' = "free"
    /\ req' = [req EXCEPT ![h] = NoReq]
    /\ Goto(h, "idle")
    /\ UNCHANGED <<generation_counter, watchers, outdated_watchers, panic,
                   emitted, taken, history_vars>>

NextThreads ==
    \E h \in Handlers :
        \/ Invoke(h)
        \/ Acquire(h)
        \/ ReadStep(h)
        \/ CheckCounter(h)
        \/ AckLookup(h)
        \/ RemoveWatcher(h)
        \/ RemoveOutdated(h)
        \/ BumpCounter(h)
        \/ BumpSignal(h)
        \/ BumpTake(h)
        \/ BumpExtend(h)
        \/ Release(h)

SpecThreads == InitThreads /\ [][NextThreads]_vars

----------------------------------------------------------------------------
(* The example client (src/examples/client.rs) next to the service.  The   *)
(* service, the other watchers and the overseer's TriggerSysGenUpdate calls *)
(* are the actions of Next.  new_tracked_app is the first thing the client  *)
(* runs; the client's signal handler and main loop come after it.           *)

ClientId == 1

\* the methods main registers on the interface
Registered ==
    {"GetSysGenCounter", "CountOutdatedWatchers", "UpdateWatcher",
     "TriggerSysGenUpdate"}

\* A method call from sender as the service answers it.
MethodCall(s, method, sender, args, checks) ==
    CASE method \notin Registered -> Outcome(s, <<>>, "UnknownMethod")
      [] method = "GetSysGenCounter" -> Outcome(s, <<>>, "Ok")
      [] method = "CountOutdatedWatchers" -> Outcome(s, <<>>, "Ok")
      [] method = "UpdateWatcher" -> update_watcher(s, sender, args[1], args[2])
      [] method = "TriggerSysGenUpdate" -> bump_generation(s, args[1], checks)

InitClient ==
    /\ InitService
    /\ triggers_left = Unlimited
    /\ log_ops = FALSE
    /\ ThreadsIdle
    /\ cl_pc = "get"
    /\ cl_counter = 0
    /\ OverseerOff

\* proxy.method_call(.., "GetSysGenCounter", ()).await.unwrap()
ClientGetSysGenCounter ==
    /\ panic = "none"
    /\ cl_pc = "get"
    /\ LET out == MethodCall(Self, "GetSysGenCounter", ClientId, <<>>, overflow_checks)
       IN  /\ Commit(out, FALSE)
           /\ cl_counter' = out.s.generation_counter
    /\ cl_pc' = "ack"
    /\ UNCHANGED <<last_op, triggers_left, overseer_vars>>

\* proxy.method_call(.., "AckWatcherCounter", (counter,)).await.unwrap()
ClientAckWatcherCounter ==
    /\ panic = "none"
    /\ cl_pc = "ack"
    /\ LET out == MethodCall(Self, "AckWatcherCounter", ClientId, <<cl_counter>>,
                             overflow_checks)
       IN  /\ Commit(out, FALSE)
           /\ cl_pc' = IF out.result = "Ok" THEN "running" ELSE "panicked"
    /\ UNCHANGED <<last_op, triggers_left, cl_counter, overseer_vars>>

NextClient ==
    \/ Next
    \/ ClientGetSysGenCounter
    \/ ClientAckWatcherCounter

SpecClient == InitClient /\ [][NextClient]_vars

----------------------------------------------------------------------------
(* The example overseer (src/examples/overseer.rs) next to the service.    *)
(* Its main task runs quiesce, bump_generation, wait_system_adjust and     *)
(* unquiesce; its connection task takes the messages sent to the overseer  *)
(* in the order the service sent them: it completes the pending call with  *)
(* a reply, and runs the SystemReady callback, which locks the overseer.   *)
(* A MutexGuard taken in front of an .await is held until the reply.       *)

MaxInbox == 2

OverseerId == NumWatchers + 1

TriggerReply == [name |-> "TriggerSysGenUpdate", args |-> <<>>]

CountReply(n) == [name |-> "CountOutdatedWatchers", args |-> <<n>>]

\* Overseer::quiesce
quiesce(state) == "Quiesced"

\* Variant: the state of the previous phase is kept.
wait_system_adjust_begin_keep(state) == state

\* Overseer::wait_system_adjust, first statement
wait_system_adjust_begin(state) == "Adjusting"

\* Overseer::system_adjusted_signal_handler
system_adjusted_signal_handler(state) == "Adjusted"

\* Overseer::unquiesce
unquiesce(state) == "Ready"

\* the overseer process is up, so messages are queued for it
OverseerRuns == ovs_pc # "panicked"

InitOverseer ==
    /\ InitService
    /\ triggers_left = MaxTriggers
    /\ log_ops = FALSE
    /\ ThreadsIdle
    /\ ClientOff
    /\ ovs_pc = "quiesce"
    /\ OverseerNew

\* The service handled a message with outcome out: what the overseer gets of
\* it is the SystemReady signals and the reply, if the call was its own.
Served(out, reply) ==
    LET ready == SelectSeq(out.signals, LAMBDA m : m = SystemReady)
        msgs == IF IsPanic(out.result) \/ ~OverseerRuns THEN <<>>
                ELSE ready \o reply
        served == trigger_served \/ (reply = <<TriggerReply>> /\ ~IsPanic(out.result))
    IN  /\ Len(inbox) + Len(msgs) <= MaxInbox
        /\ generation_counter' = out.s.generation_counter
        /\ watchers' = out.s.watchers
        /\ outdated_watchers' = out.s.outdated_watchers
        /\ panic' = IF IsPanic(out.result) THEN out.result ELSE "none"
        /\ inbox' = inbox \o msgs
        /\ trigger_served' = served
        /\ empty_after_trigger' =
              \/ empty_after_trigger
              \/ /\ served
                 /\ ~IsPanic(out.result)
                 /\ DOMAIN out.s.outdated_watchers = {}
        /\ UNCHANGED <<overflow_checks, emitted, last_op, ready_since_bump,
                       ready_in_gen, outdated_at_bump, announced, max_announced,
                       log_ops, thread_vars, client_vars, ovs_pc, system_state,
                       ovs_lock, ovs_count>>

\* a watcher calls UpdateWatcher(true, watcher_counter)
WatcherAcks ==
    /\ panic = "none"
    /\ \E sender \in WatcherIds, watcher_counter \in U32 :
          Served(MethodCall(Self, "UpdateWatcher", sender,
                            <<TRUE, watcher_counter>>, overflow_checks),
                 <<>>)
    /\ UNCHANGED <<triggers_left, call>>

\* a watcher leaves the bus (NameOwnerChanged); UpdateWatcher(false, ..) with
\* the current counter makes the same call
WatcherLeaves ==
    /\ panic = "none"
    /\ \E name \in WatcherIds :
          Served(update_watcher(Self, name, FALSE, 0), <<>>)
    /\ UNCHANGED <<triggers_left, call>>

\* another run of the overseer calls TriggerSysGenUpdate(0)
OtherTrigger ==
    /\ panic = "none"
    /\ triggers_left > 0
    /\ Served(MethodCall(Self, "TriggerSysGenUpdate", NoName, <<0>>,
                         overflow_checks),
              <<>>)
    /\ triggers_left' = triggers_left - 1
    /\ UNCHANGED call

\* the service handles the overseer's TriggerSysGenUpdate(0)
ServeTrigger ==
    /\ panic = "none"
    /\ call = "TriggerSysGenUpdate"
    /\ Served(MethodCall(Self, call, OverseerId, <<0>>, overflow_checks),
              <<TriggerReply>>)
    /\ call' = "none"
    /\ UNCHANGED triggers_left

\* the service handles the overseer's CountOutdatedWatchers
ServeCount ==
    /\ panic = "none"
    /\ call = "CountOutdatedWatchers"
    /\ Served(MethodCall(Self, call, OverseerId, <<>>, overflow_checks),
              <<CountReply(Cardinality(DOMAIN outdated_watchers))>>)
    /\ call' = "none"
    /\ UNCHANGED triggers_left

\* what a step of the overseer leaves alone
OverseerOnly ==
    UNCHANGED <<generation_counter, watchers, outdated_watchers,
                overflow_checks, panic, emitted, last_op, ready_since_bump,
                ready_in_gen, outdated_at_bump, announced, max_announced,
                triggers_left, log_ops, thread_vars, client_vars,
                trigger_served, empty_after_trigger>>

\* ovs.lock().unwrap().quiesce()
Quiesce ==
    /\ ovs_pc = "quiesce"
    /\ ovs_lock = "free"
    /\ system_state' = quiesce(system_state)
    /\ ovs_pc' = "bump_generation"
    /\ UNCHANGED <<ovs_lock, ovs_count, inbox, call>>
    /\ OverseerOnly

\* ovs.lock().unwrap().bump_generation().await, up to the await
BumpGeneration ==
    /\ ovs_pc = "bump_generation"
    /\ ovs_lock = "free"
    /\ ovs_lock' = "main"
    /\ call' = "TriggerSysGenUpdate"
    /\ ovs_pc' = "bump_generation_await"
    /\ UNCHANGED <<system_state, ovs_count, inbox>>
    /\ OverseerOnly

\* the connection task hands the reply of TriggerSysGenUpdate to the main
\* task, which leaves bump_generation and drops the guard
TriggerReplied ==
    /\ ovs_pc = "bump_generation_await"
    /\ inbox # <<>>
    /\ Head(inbox) = TriggerReply
    /\ inbox' = Tail(inbox)
    /\ ovs_lock' = "free"
    /\ ovs_pc' = "wait_system_adjust"
    /\ UNCHANGED <<system_state, ovs_count, call>>
    /\ OverseerOnly

\* ovs.lock().unwrap().system_state = SystemState::Adjusting
Adjusting ==
    /\ ovs_pc = "wait_system_adjust"
    /\ ovs_lock = "free"
    /\ system_state' = wait_system_adjust_begin(system_state)
    /\ ovs_pc' = "count_outdated_watchers"
    /\ UNCHANGED <<ovs_lock, ovs_count, inbox, call>>
    /\ OverseerOnly

\* ovs.lock().unwrap().count_outdated_watchers().await, up to the await
CountOutdated ==
    /\ ovs_pc = "count_outdated_watchers"
    /\ ovs_lock = "free"
    /\ ovs_lock' = "main"
    /\ call' = "CountOutdatedWatchers"
    /\ ovs_pc' = "count_outdated_watchers_await"
    /\ UNCHANGED <<system_state, ovs_count, inbox>>
    /\ OverseerOnly

\* the connection task hands the reply of CountOutdatedWatchers to the main
\* task, which drops the guard and branches on the count
CountReplied ==
    /\ ovs_pc = "count_outdated_watchers_await"
    /\ inbox # <<>>
    /\ Head(inbox).name = "CountOutdatedWatchers"
    /\ inbox' = Tail(inbox)
    /\ ovs_count' = Head(inbox).args[1]
    /\ ovs_lock' = "free"
    /\ ovs_pc' = IF Head(inbox).args[1] # 0 THEN "poll" ELSE "no_outdated"
    /\ UNCHANGED <<system_state, call>>
    /\ OverseerOnly

\* The main task awaits a reply with the guard held while a SystemReady is
\* first in line: the connection task is inside the callback, waiting for the
\* overseer's mutex, and takes no further message.
ConnectionBlocked ==
    /\ ovs_pc \in {"bump_generation_await", "count_outdated_watchers_await"}
    /\ ovs_lock = "main"
    /\ inbox # <<>>
    /\ Head(inbox) = SystemReady

\* The reply cannot come (the connection task is blocked, or the service is
\* gone) and the proxy's timeout ends the call: unwrap() panics with the
\* guard held, and the process ends.  A reply that can be delivered is taken
\* to arrive in time.
Timeout ==
    /\ ovs_pc \in {"bump_generation_await", "count_outdated_watchers_await"}
    /\ ConnectionBlocked \/ panic # "none"
    /\ ovs_pc' = "panicked"
    /\ ovs_lock' = "poisoned"
    /\ inbox' = <<>>
    /\ call' = "none"
    /\ UNCHANGED <<system_state, ovs_count>>
    /\ OverseerOnly

\* the connection task runs the SystemReady callback
SystemReadyReceived ==
    /\ OverseerRuns
    /\ inbox # <<>>
    /\ Head(inbox) = SystemReady
    /\ ovs_lock = "free"
    /\ inbox' = Tail(inbox)
    /\ system_state' = system_adjusted_signal_handler(system_state)
    /\ UNCHANGED <<ovs_pc, ovs_lock, ovs_count, call>>
    /\ OverseerOnly

\* while ovs.lock().unwrap().system_state != SystemState::Adjusted: the loop
\* is left once the state is Adjusted
Poll ==
    /\ ovs_pc = "poll"
    /\ ovs_lock = "free"
    /\ system_state = "Adjusted"
    /\ ovs_pc' = "unquiesce"
    /\ UNCHANGED <<system_state, ovs_lock, ovs_count, inbox, call>>
    /\ OverseerOnly

\* else: ovs.lock().unwrap().system_state = SystemState::Adjusted
NoOutdated ==
    /\ ovs_pc = "no_outdated"
    /\ ovs_lock = "free"
    /\ system_state' = "Adjusted"
    /\ ovs_pc' = "unquiesce"
    /\ UNCHANGED <<ovs_lock, ovs_count, inbox, call>>
    /\ OverseerOnly

\* ovs.lock().unwrap().unquiesce()
Unquiesce ==
    /\ ovs_pc = "unquiesce"
    /\ ovs_lock = "free"
    /\ system_state' = unquiesce(system_state)
    /\ ovs_pc' = "done"
    /\ UNCHANGED <<ovs_lock, ovs_count, inbox, call>>
    /\ OverseerOnly

NextOverseer ==
    \/ WatcherAcks
    \/ WatcherLeaves
    \/ OtherTrigger
    \/ ServeTrigger
    \/ ServeCount
    \/ Quiesce
    \/ BumpGeneration
    \/ TriggerReplied
    \/ Adjusting
    \/ CountOutdated
    \/ CountReplied
    \/ Timeout
    \/ SystemReadyReceived
    \/ Poll
    \/ NoOutdated
    \/ Unquiesce

SpecOverseer == InitOverseer /\ [][NextOverseer]_vars

\* the steps of the overseer's main task
MainTask ==
    \/ Quiesce
    \/ BumpGeneration
    \/ TriggerReplied
    \/ Adjusting
    \/ CountOutdated
    \/ CountReplied
    \/ Poll
    \/ NoOutdated
    \/ Unquiesce

\* the service answers the overseer's call
ServeCall == ServeTrigger \/ ServeCount

\* an outdated watcher acknowledges the current counter
WatcherResolves(w) ==
    /\ panic = "none"
    /\ w \in DOMAIN outdated_watchers
    /\ Served(MethodCall(Self, "UpdateWatcher", w, <<TRUE, generation_counter>>,
                         overflow_checks),
              <<>>)
    /\ UNCHANGED <<triggers_left, call>>

\* Every task that can run does run, the service answers every call, and
\* every outdated watcher acknowledges.  Whether a blocked call is ended by
\* the timeout is left open.
SpecOverseerLive ==
    /\ InitOverseer
    /\ [][NextOverseer]_vars
    /\ WF_vars(MainTask)
    /\ WF_vars(SystemReadyReceived)
    /\ WF_vars(ServeCall)
    /\ \A w \in WatcherIds : WF_vars(WatcherResolves(w))

----------------------------------------------------------------------------
TypeOK ==
    /\ generation_counter \in U32
    /\ DOMAIN watchers \subseteq WatcherIds
    /\ DOMAIN outdated_watchers \subseteq WatcherIds
    /\ \A w \in DOMAIN watchers : watchers[w].acked_gen_counter \in U32
    /\ \A w \in DOMAIN outdated_watchers : outdated_watchers[w].acked_gen_counter \in U32
    /\ panic \in {"none", "PanicOverflow", "PanicAssert"}

----------------------------------------------------------------------------
(* Properties.  A step is identified by the message it handled (last_op'), *)
(* its inputs by the fields of last_op', the state before it by the        *)
(* unprimed variables.                                                     *)

Tracked == DOMAIN watchers
Outdated == DOMAIN outdated_watchers

Sent(signals) == {signals[i] : i \in DOMAIN signals}

\* the step handled TriggerSysGenUpdate and the handler returned
TriggerStep ==
    last_op'.op = "TriggerSysGenUpdate" /\ last_op'.result = "Ok"

\* the step handled UpdateWatcher(tracking = TRUE) from an identified sender
AckStep ==
    last_op'.op = "UpdateWatcher" /\ last_op'.id # NoName /\ last_op'.tracking

\* the step handled UpdateWatcher(tracking = FALSE) from an identified sender
OptOutStep ==
    last_op'.op = "UpdateWatcher" /\ last_op'.id # NoName /\ ~last_op'.tracking

\* the step handled the NameOwnerChanged of a name leaving the bus
DisconnectStep ==
    last_op'.op = "NameOwnerChanged" /\ last_op'.id = last_op'.old_owner

\* C1: a step sends SystemReady if and only if outdated_watchers was
\* non-empty before it and is empty after it; it sends it at most once, and
\* only for a message from a watcher that was in outdated_watchers.
C1_ReadyIffOutdatedEmptied ==
    [][ /\ (SystemReady \in Sent(emitted')) <=> (Outdated # {} /\ Outdated' = {})
        /\ CountReady(emitted') <= 1
        /\ (SystemReady \in Sent(emitted')) =>
              /\ ~TriggerStep
              /\ last_op'.id \in Outdated
      ]_vars

C1_Witness ==
    /\ last_op.op = "UpdateWatcher"
    /\ last_op.tracking
    /\ emitted = <<SystemReady>>
    /\ Outdated = {}
    /\ Cardinality(Tracked) = NumWatchers

\* C2 as stated: a TriggerSysGenUpdate handled while no watcher is tracked,
\* leaving outdated_watchers empty, sends SystemReady besides NewGeneration.
C2_Original ==
    [][ (TriggerStep /\ Tracked = {} /\ Outdated' = {}) =>
            /\ NewGeneration(generation_counter') \in Sent(emitted')
            /\ SystemReady \in Sent(emitted')
      ]_vars

\* C2 as amended: a TriggerSysGenUpdate handled while no watcher is tracked,
\* leaving outdated_watchers empty, sends NewGeneration with the new counter
\* and nothing else (no SystemReady); from counter 0, min_gen 0 gives 1.
C2_TriggerSendsOnlyNewGeneration ==
    [][ (TriggerStep /\ Tracked = {} /\ Outdated' = {}) =>
            /\ emitted' = <<NewGeneration(generation_counter')>>
            /\ (generation_counter = 0 /\ last_op'.arg = 0) => generation_counter' = 1
      ]_vars

C2_Witness ==
    /\ last_op.op = "TriggerSysGenUpdate"
    /\ last_op.result = "Ok"
    /\ last_op.arg = 0
    /\ generation_counter = 1
    /\ Tracked = {} /\ Outdated = {}
    /\ emitted = <<NewGeneration(1)>>

\* C3 as stated: when a TriggerSysGenUpdate ends a generation that an earlier
\* one began, exactly one SystemReady was sent while the counter had that
\* generation's value.
C3_Original ==
    [][ (TriggerStep /\ generation_counter # 0
            /\ generation_counter' # generation_counter) =>
            ready_in_gen = 1
      ]_vars

\* C3 as amended: SystemReady is sent at most once per bump: the number sent
\* since the last bump is 1 if outdated_watchers was non-empty right after
\* that bump and is empty now, and 0 otherwise (also before the first bump).
C3_ReadyAtMostOncePerBump ==
    ready_since_bump =
        IF outdated_at_bump /\ Outdated = {} THEN 1 ELSE 0

C3_Witness ==
    /\ ready_since_bump = 1
    /\ outdated_at_bump
    /\ Outdated = {}
    /\ emitted = <<>>
    /\ last_op.op = "UpdateWatcher"

\* C4: every tracked watcher's acked_gen_counter equals generation_counter,
\* and the assert_eq of the acknowledge path never fails.
C4_TrackedAckedCurrent ==
    /\ \A w \in Tracked : watchers[w].acked_gen_counter = generation_counter
    /\ panic # "PanicAssert"
    /\ last_op.result # "PanicAssert"

C4_Witness ==
    /\ last_op.op = "UpdateWatcher"
    /\ last_op.tracking
    /\ last_op.result = "Ok"
    /\ last_op.id \in Tracked
    /\ emitted = <<>>
    /\ generation_counter = U32_MAX
    /\ Outdated # {}

\* C5: every TriggerSysGenUpdate returns and leaves generation_counter
\* strictly greater than before.
C5_Claim ==
    [][ last_op'.op = "TriggerSysGenUpdate" =>
            /\ last_op'.result = "Ok"
            /\ generation_counter' > generation_counter
      ]_vars

\* C6: after TriggerSysGenUpdate(min_gen) the counter is
\* max(min_gen, previous + 1); no other message changes the counter.
C6_Claim ==
    [][ IF last_op'.op = "TriggerSysGenUpdate"
        THEN generation_counter' = max(last_op'.arg, generation_counter + 1)
        ELSE generation_counter' = generation_counter
      ]_vars

\* C7: UpdateWatcher(tracking = TRUE) with a watcher_counter other than
\* generation_counter returns an error, changes neither map nor the counter,
\* and sends no signal.
C7_StaleAckRejected ==
    [][ (AckStep /\ last_op'.arg # generation_counter) =>
            /\ last_op'.result = "Err"
            /\ last_op'.reply = <<>>
            /\ watchers' = watchers
            /\ outdated_watchers' = outdated_watchers
            /\ generation_counter' = generation_counter
            /\ emitted' = <<>>
      ]_vars

C7_Witness ==
    /\ last_op.op = "UpdateWatcher"
    /\ last_op.tracking
    /\ last_op.result = "Err"
    /\ last_op.id \in Outdated
    /\ last_op.arg # generation_counter
    /\ Outdated = {last_op.id}
    /\ Tracked # {}

\* C8: no watcher id is in both watchers and outdated_watchers.
C8_MapsDisjoint == Tracked \cap Outdated = {}

C8_Witness ==
    /\ Tracked # {}
    /\ Outdated # {}
    /\ last_op.op = "UpdateWatcher"
    /\ last_op.tracking
    /\ last_op.result = "Ok"
    /\ last_op.id \in Tracked

\* C9: after TriggerSysGenUpdate watchers is empty and outdated_watchers holds
\* the ids of both maps from before the call; its size is the number of
\* watchers that were in either map.
C9_TriggerMarksAllOutdated ==
    [][ TriggerStep =>
            /\ Tracked' = {}
            /\ Outdated' = Outdated \cup Tracked
            /\ Cardinality(Outdated') = Cardinality(Outdated) + Cardinality(Tracked)
      ]_vars

C9_Witness ==
    /\ last_op.op = "TriggerSysGenUpdate"
    /\ last_op.result = "Ok"
    /\ Tracked = {}
    /\ Cardinality(Outdated) = NumWatchers
    /\ \E a, b \in Outdated :
          outdated_watchers[a].acked_gen_counter # outdated_watchers[b].acked_gen_counter

\* C10: UpdateWatcher(tracking = FALSE), whatever its watcher_counter, and the
\* NameOwnerChanged of a leaving name succeed, leave the id in neither map,
\* change no other entry nor the counter, and send SystemReady exactly when
\* the id was in outdated_watchers and its removal emptied the map.
C10_StopTracking ==
    [][ (OptOutStep \/ DisconnectStep) =>
            /\ last_op'.result = "Ok"
            /\ last_op'.id \notin Tracked' \cup Outdated'
            /\ watchers' = MapRemove(watchers, last_op'.id)
            /\ outdated_watchers' = MapRemove(outdated_watchers, last_op'.id)
            /\ generation_counter' = generation_counter
            /\ emitted' = IF last_op'.id \in Outdated /\ Outdated' = {}
                          THEN <<SystemReady>> ELSE <<>>
      ]_vars

C10_Witness ==
    /\ last_op.op = "NameOwnerChanged"
    /\ last_op.id = last_op.old_owner
    /\ last_op.result = "Ok"
    /\ emitted = <<SystemReady>>
    /\ Outdated = {}
    /\ Tracked # {}

\* the struct value after the step
SelfNext ==
    [generation_counter |-> generation_counter', watchers |-> watchers',
     outdated_watchers |-> outdated_watchers']

\* C11: UpdateWatcher(tracking = TRUE, current counter) from a watcher that
\* is already tracked succeeds, changes neither map nor the counter and sends
\* no signal; and repeating any accepted acknowledgement on the state it
\* produced changes nothing and sends nothing.
C11_ReAckIdempotent ==
    [][ /\ (AckStep /\ last_op'.id \in Tracked
                /\ last_op'.arg = generation_counter) =>
              /\ last_op'.result = "Ok"
              /\ last_op'.reply = <<generation_counter>>
              /\ SelfNext = Self
              /\ emitted' = <<>>
        /\ (AckStep /\ last_op'.result = "Ok") =>
              LET again == update_watcher(SelfNext, last_op'.id, TRUE, last_op'.arg)
              IN  /\ again.result = "Ok"
                  /\ again.s = SelfNext
                  /\ again.signals = <<>>
      ]_vars

C11_Witness ==
    /\ last_op.op = "UpdateWatcher"
    /\ last_op.tracking
    /\ last_op.result = "Ok"
    /\ last_op.was = "Current"
    /\ last_op.id \in Tracked
    /\ emitted = <<>>
    /\ Outdated # {}

\* C12: a watcher's state changes only from Untracked or Outdated to Current
\* by its own accepted UpdateWatcher(tracking = TRUE, current counter), from
\* Current to Outdated by TriggerSysGenUpdate, and from Current or Outdated
\* to Untracked by its own opt-out or disconnect.
C12_WatcherTransitions ==
    [][ \A w \in WatcherIds :
          LET a == StateOf(Self, w)
              b == StateOf(SelfNext, w)
          IN  \/ a = b
              \/ /\ a \in {"Untracked", "Outdated"}
                 /\ b = "Current"
                 /\ AckStep
                 /\ last_op'.id = w
                 /\ last_op'.arg = generation_counter
                 /\ last_op'.result = "Ok"
              \/ /\ a = "Current"
                 /\ b = "Outdated"
                 /\ TriggerStep
              \/ /\ a \in {"Current", "Outdated"}
                 /\ b = "Untracked"
                 /\ (OptOutStep \/ DisconnectStep)
                 /\ last_op'.id = w
      ]_vars

C12_Witness ==
    /\ last_op.op = "UpdateWatcher"
    /\ last_op.tracking
    /\ last_op.result = "Ok"
    /\ last_op.was = "Outdated"
    /\ last_op.id \in Tracked
    /\ Outdated # {}
    /\ emitted = <<>>

\* C13: a GetSysGenCounter reply is at least every NewGeneration payload sent
\* before it; the watchers tracked at a TriggerSysGenUpdate are all outdated
\* after it and leave the outdated map only by their own message; and a
\* CountOutdatedWatchers reply after a SystemReady and before the next
\* TriggerSysGenUpdate is 0.
C13_Claim ==
    /\ [](last_op.op = "GetSysGenCounter" => last_op.reply[1] >= max_announced)
    /\ []((last_op.op = "CountOutdatedWatchers" /\ ready_since_bump >= 1) =>
             last_op.reply = <<0>>)
    /\ [][ /\ TriggerStep => Tracked \subseteq Outdated'
           /\ ~TriggerStep => (Outdated \ Outdated') \subseteq {last_op'.id}
         ]_vars

\* C15: every TriggerSysGenUpdate sends exactly one NewGeneration, carrying
\* the counter after the advance and a payload greater than that of the
\* NewGeneration before it; no other message sends NewGeneration.
C15_Claim ==
    [][ IF last_op'.op = "TriggerSysGenUpdate"
        THEN /\ emitted' = <<NewGeneration(generation_counter')>>
             /\ announced # <<>> => generation_counter' > announced[1]
        ELSE DOMAIN Payloads(emitted') = {}
      ]_vars

\* C17: a step other than TriggerSysGenUpdate leaves outdated_watchers a
\* subset of what it was, and removes from it at most the sender, and only by
\* an acknowledgement of the current counter, an opt-out or a disconnect;
\* TriggerSysGenUpdate removes nothing from it.
C17_OutdatedGrowsOnlyByTrigger ==
    [][ /\ last_op'.op # "TriggerSysGenUpdate" =>
              /\ Outdated' \subseteq Outdated
              /\ \A w \in Outdated \ Outdated' :
                    /\ last_op'.id = w
                    /\ \/ AckStep /\ last_op'.arg = generation_counter
                       \/ OptOutStep
                       \/ DisconnectStep
        /\ last_op'.op = "TriggerSysGenUpdate" => Outdated \subseteq Outdated'
      ]_vars

C17_Witness ==
    /\ last_op.op = "UpdateWatcher"
    /\ last_op.tracking
    /\ last_op.result = "Ok"
    /\ last_op.was = "Untracked"
    /\ last_op.id \in Tracked
    /\ Outdated # {}
    /\ outdated_at_bump
    /\ ready_since_bump = 0

\* C18: no SystemReady is sent before the first NewGeneration, and when a
\* SystemReady is sent the most recent NewGeneration carried the value the
\* counter has at that moment.
C18_ReadyAfterNewGeneration ==
    /\ SystemReady \in Sent(emitted) => announced = <<generation_counter>>
    /\ announced = <<>> =>
          /\ generation_counter = 0
          /\ ready_since_bump = 0
          /\ ready_in_gen = 0

C18_Witness ==
    /\ emitted = <<SystemReady>>
    /\ announced = <<generation_counter>>
    /\ last_op.was = "Outdated"
    /\ generation_counter > 1

\* C16: when watchers are outdated and the service is running, with no
\* TriggerSysGenUpdate after the last of finitely many, a SystemReady is
\* eventually sent for the last bump (or a later call ends the service),
\* given that every outdated watcher eventually acknowledges, opts out or
\* leaves.
C16_EventuallyReady ==
    (panic = "none" /\ Outdated # {}) ~>
        (ready_since_bump >= 1 \/ panic # "none")

C16_Witness ==
    /\ ~log_ops
    /\ triggers_left = 0
    /\ outdated_at_bump
    /\ Outdated = {}
    /\ emitted = <<SystemReady>>
    /\ ready_since_bump = 1
    /\ Tracked # {}

\* the handler holds the lock and is running its statements
InCS(h) == pc[h] \notin {"idle", "lock"}

\* neither of the half-done states: a watcher in both maps, or a tracked
\* watcher whose acknowledged counter is not the current one
Consistent ==
    /\ Tracked \cap Outdated = {}
    /\ \A w \in Tracked : watchers[w].acked_gen_counter = generation_counter

\* C14: the handlers, the NameOwnerChanged callback included, run one at a
\* time under the same mutex, and a handler that starts (or finds the mutex
\* free) never sees the half-done state of another.
C14_Serialized ==
    /\ \A h1, h2 \in Handlers : (h1 # h2) => ~(InCS(h1) /\ InCS(h2))
    /\ \A h \in Handlers : InCS(h) => mutex = h
    /\ \A h \in Handlers : pc[h] \in EntryLabels => Consistent
    /\ mutex = "free" => Consistent

C14_Witness ==
    /\ mutex = "method"
    /\ pc["method"] = "remove_outdated"
    /\ req["method"].tracking
    /\ pc["listener"] = "lock"
    /\ Tracked \cap Outdated # {}

\* C19: the example client's acknowledgement of the counter it read is never
\* answered with an error, whatever TriggerSysGenUpdate calls interleave.
C19_Claim == cl_pc # "panicked"

\* C20: when the overseer's main task is at or past its unquiesce step,
\* outdated_watchers has been empty at some moment after the service handled
\* the overseer's TriggerSysGenUpdate.
C20_UnquiesceAfterAdjusted ==
    ovs_pc \in {"unquiesce", "done"} => empty_after_trigger

\* C20 witness: the overseer found watchers outdated after its trigger,
\* waited for SystemReady and has un-quiesced.
C20_Witness ==
    /\ ovs_pc = "done"
    /\ system_state = "Ready"
    /\ ovs_count > 0
    /\ empty_after_trigger

\* C21: once the overseer has called TriggerSysGenUpdate, its main task
\* eventually passes unquiesce with system_state Ready.
C21_Claim ==
    (ovs_pc = "bump_generation_await") ~>
        (ovs_pc = "done" /\ system_state = "Ready")

=============================================================================
